---- MODULE Spec2Model ----
(***************************************************************************)
(* Policy iteration for the two-location car rental problem               *)
(* (RL_LAB2_car_rental_jupyter.ipynb): the Poisson cache, expected_return *)
(* and the in-place policy-iteration loop.                                 *)
(*                                                                         *)
(* Floats are modelled in fixed point: a probability is an integer number *)
(* of 1/PSCALE, a return or a state value an integer number of 1/VSCALE.  *)
(***************************************************************************)
EXTENDS Integers, Sequences, FiniteSets, TLC

\* ---------------------------------------------------------------------------
\* Parameters of the environment (cell 2).  The three sizes are reduced.
MAX_CARS == 5
MAX_MOVE_OF_CARS == 2
POISSON_UPPER_BOUND == 5

RENTAL_REQUEST_FIRST_LOC == 3
RENTAL_REQUEST_SECOND_LOC == 4
RETURNS_FIRST_LOC == 3
RETURNS_SECOND_LOC == 2
RENTAL_CREDIT == 10
MOVE_CAR_COST == 2
\* DISCOUNT = 0.9
DISCOUNT_NUM == 9
DISCOUNT_DEN == 10
\* the evaluation threshold 1e-4 is 1 / THRESHOLD_DEN
THRESHOLD_DEN == 10000
\* plt.subplots(2, 3): the number of axes the outer loop can index
NUM_AXES == 6
\* the base of the cache key, n * 10 + lam
KEY_BASE == 10

\* fixed-point resolutions
PSCALE == 10000
VSCALE == 100
\* -np.inf, below every return the model can compute
NEG_INF == -1000000000

\* the largest count asked of poisson_probability on its own, plus one
MAX_REQUEST_COUNT == 3

States == (0..MAX_CARS) \X (0..MAX_CARS)

\* actions = np.arange(-MAX_MOVE_OF_CARS, MAX_MOVE_OF_CARS + 1)
actions == [k \in 1..(2 * MAX_MOVE_OF_CARS + 1) |-> k - MAX_MOVE_OF_CARS - 1]

ConfiguredRates ==
    {RENTAL_REQUEST_FIRST_LOC, RENTAL_REQUEST_SECOND_LOC,
     RETURNS_FIRST_LOC, RETURNS_SECOND_LOC}

\* two rates the key was not made for
WideRates == {10, 20}

Min(a, b) == IF a <= b THEN a ELSE b

Max(a, b) == IF a >= b THEN a ELSE b

Abs(a) == IF a < 0 THEN -a ELSE a

\* ---------------------------------------------------------------------------
\* scipy.stats.poisson.pmf(n, lam) = exp(-lam) * lam^n / n!, in 1/PSCALE.
\* exp(-lam) in units of 1e-7
ExpNeg(lam) ==
    CASE lam = 2 -> 1353353
      [] lam = 3 -> 497871
      [] lam = 4 -> 183156
      [] lam = 10 -> 454
      [] lam = 20 -> 0

RECURSIVE Pow(_, _)
Pow(b, e) == IF e = 0 THEN 1 ELSE b * Pow(b, e - 1)

RECURSIVE Fact(_)
Fact(n) == IF n = 0 THEN 1 ELSE n * Fact(n - 1)

poisson_pmf(n, lam) == (ExpNeg(lam) * Pow(lam, n)) \div (Fact(n) * 1000)

\* a key that keeps the two parts apart
KeyPair(n, lam) == n * 1000 + lam

\* key = n * 10 + lam
Key(n, lam) == n * KEY_BASE + lam

\* the membership test dropped
KeyAlwaysMissing(cache, key) == TRUE

\* if key not in poisson_cache
KeyMissing(cache, key) == key \notin DOMAIN cache

\* poisson_probability(n, lam): the cache after the call ...
PoissonStore(cache, n, lam) ==
    IF KeyMissing(cache, Key(n, lam))
    THEN (Key(n, lam) :> poisson_pmf(n, lam)) @@ cache
    ELSE cache

\* ... and the value it returns: the entry stored under the key
poisson_probability(cache, n, lam) == PoissonStore(cache, n, lam)[Key(n, lam)]

\* ---------------------------------------------------------------------------
\* expected_return(state, action, state_value, constant_returned_cars)

Counts == 0..(POISSON_UPPER_BOUND - 1)

\* for k in range(n): total += f[k]
RECURSIVE SumTo(_, _)
SumTo(f, n) == IF n = 0 THEN 0 ELSE f[n - 1] + SumTo(f, n - 1)

\* The (n, lam) pairs one call asks poisson_probability for, each at its
\* first occurrence in the order of the loops.  A stored entry is never
\* replaced, so later repetitions of a pair leave the cache as it is.
RentalRequests ==
    <<<<0, RENTAL_REQUEST_FIRST_LOC>>>> \o
    [k \in 1..POISSON_UPPER_BOUND |-> <<k - 1, RENTAL_REQUEST_SECOND_LOC>>] \o
    [k \in 1..(POISSON_UPPER_BOUND - 1) |-> <<k, RENTAL_REQUEST_FIRST_LOC>>]

ReturnRequests ==
    <<<<0, RETURNS_FIRST_LOC>>>> \o
    [k \in 1..POISSON_UPPER_BOUND |-> <<k - 1, RETURNS_SECOND_LOC>>] \o
    [k \in 1..(POISSON_UPPER_BOUND - 1) |-> <<k, RETURNS_FIRST_LOC>>]

CallRequests(constant_returned) ==
    IF constant_returned THEN RentalRequests
    ELSE <<RentalRequests[1], RentalRequests[2]>> \o ReturnRequests \o
         SubSeq(RentalRequests, 3, Len(RentalRequests))

\* poisson_cache when expected_return returns: the entries it had, and under
\* every other key asked for the mass of the first pair that asked for it
CacheAfterCall(cache, constant_returned) ==
    LET reqs == CallRequests(constant_returned)
        KeyOf(k) == Key(reqs[k][1], reqs[k][2])
        FirstWith(key) ==
            reqs[CHOOSE k \in 1..Len(reqs) :
                    KeyOf(k) = key /\ \A m \in 1..(k - 1) : KeyOf(m) # key]
    IN  [key \in DOMAIN cache \cup {KeyOf(k) : k \in 1..Len(reqs)} |->
            IF ~KeyMissing(cache, key) THEN cache[key]
            ELSE poisson_pmf(FirstWith(key)[1], FirstWith(key)[2])]

\* NUM_OF_CARS_FIRST_LOC = min(state[0] - action, MAX_CARS)
PostMoveFirst(state, action) == Min(state[1] - action, MAX_CARS)

\* NUM_OF_CARS_SECOND_LOC = min(state[1] + action, MAX_CARS)
PostMoveSecond(state, action) == Min(state[2] + action, MAX_CARS)

\* every request served
ValidRentalAll(num, req) == req

\* valid_rental = min(num_of_cars, rental_request)
ValidRental(num, req) == Min(num, req)

\* num_of_cars -= valid_rental
AfterRental(num, req) == num - ValidRental(num, req)

\* the upper clamp left out
AfterReturnUnclamped(num, ret) == num + ret

\* num_of_cars = min(num_of_cars + returned_cars, MAX_CARS)
AfterReturn(num, ret) == Min(num + ret, MAX_CARS)

\* the returned-car counts one call goes through at each location
ReturnedFirst(constant_returned) ==
    IF constant_returned THEN {RETURNS_FIRST_LOC} ELSE Counts

ReturnedSecond(constant_returned) ==
    IF constant_returned THEN {RETURNS_SECOND_LOC} ELSE Counts

\* every index pair the call uses to read state_value
Lookups(state, action, constant_returned) ==
    { <<AfterReturn(AfterRental(PostMoveFirst(state, action), r1), u1),
        AfterReturn(AfterRental(PostMoveSecond(state, action), r2), u2)>> :
        <<r1, r2, u1, u2>> \in Counts \X Counts \X
            ReturnedFirst(constant_returned) \X ReturnedSecond(constant_returned) }

\* state_value[a, b]; a negative index counts from the end of the axis, an
\* index past either end raises IndexError and nothing is read
NpIndex(k) == IF k < 0 THEN k + MAX_CARS + 1 ELSE k

ValueAt(state_value, a, b) ==
    IF <<NpIndex(a), NpIndex(b)>> \in DOMAIN state_value
    THEN state_value[<<NpIndex(a), NpIndex(b)>>]
    ELSE 0

\* reward + DISCOUNT * state_value[a, b], in 1/VSCALE
Backup(reward, state_value, a, b) ==
    reward * VSCALE + (DISCOUNT_NUM * ValueAt(state_value, a, b)) \div DISCOUNT_DEN

\* masses is poisson_cache with the requests of this call stored: what
\* poisson_probability returns for a pair is the entry under its key
expected_return(state, action, state_value, constant_returned, masses) ==
    LET P(n, lam) == masses[Key(n, lam)]
        first == PostMoveFirst(state, action)
        second == PostMoveSecond(state, action)
        Term(r1, r2) ==
            LET prob == (P(r1, RENTAL_REQUEST_FIRST_LOC) *
                         P(r2, RENTAL_REQUEST_SECOND_LOC)) \div PSCALE
                reward == (ValidRental(first, r1) + ValidRental(second, r2))
                              * RENTAL_CREDIT
                n1 == AfterRental(first, r1)
                n2 == AfterRental(second, r2)
                Inner(u1, u2) ==
                    LET prob_return == (P(u1, RETURNS_FIRST_LOC) *
                                        P(u2, RETURNS_SECOND_LOC)) \div PSCALE
                        prob_ == (prob_return * prob) \div PSCALE
                    IN  prob_ * Backup(reward, state_value,
                                       AfterReturn(n1, u1), AfterReturn(n2, u2))
            IN  IF constant_returned
                THEN prob * Backup(reward, state_value,
                                   AfterReturn(n1, RETURNS_FIRST_LOC),
                                   AfterReturn(n2, RETURNS_SECOND_LOC))
                ELSE SumTo([u1 \in Counts |->
                               SumTo([u2 \in Counts |-> Inner(u1, u2)],
                                     POISSON_UPPER_BOUND)],
                           POISSON_UPPER_BOUND)
        total == SumTo([r1 \in Counts |->
                           SumTo([r2 \in Counts |-> Term(r1, r2)],
                                 POISSON_UPPER_BOUND)],
                       POISSON_UPPER_BOUND)
    IN  (total \div PSCALE) - MOVE_CAR_COST * Abs(action) * VSCALE

\* ---------------------------------------------------------------------------
\* The policy-iteration cell.
VARIABLES
    value,                  \* value[i, j]
    old_value,              \* the copy taken at the start of a sweep
    policy,                 \* policy[i, j]
    pc,                     \* where the cell is
    cur,                    \* <<i, j>> of the running for loops
    policy_stable,
    iterations,
    max_value_change,
    action_returns,         \* the list built for the last improved state
    constant_returned_cars,
    poisson_cache,          \* key -> stored mass
    calls,                  \* <<state, action>> of the expected_return calls of the last step
    evaluated,              \* history: the policy the last evaluation phase ran on
    rates,                  \* the rates poisson_probability is asked for
    request,                \* the last <<n, lam>> asked of poisson_probability
    result,                 \* what that request returned
    owner,                  \* history: key -> the pair whose mass was stored last
    computed,               \* history: pair -> how often poisson.pmf was called for it
    hit                     \* history: the last request found its key stored

vars == <<value, old_value, policy, pc, cur, policy_stable, iterations,
          max_value_change, action_returns, constant_returned_cars,
          poisson_cache, calls, evaluated, rates, request, result, owner,
          computed, hit>>

driverVars == <<value, old_value, policy, pc, cur, policy_stable, iterations,
                max_value_change, action_returns, calls, evaluated>>

cacheVars == <<request, result, owner, computed, hit>>

Zeros == [s \in States |-> 0]

EmptyCache == [k \in {} |-> 0]

NoRequest == <<-1, -1>>

\* for i in range(MAX_CARS + 1): for j in range(MAX_CARS + 1)
LastState == <<MAX_CARS, MAX_CARS>>

NextState(s) == IF s[2] < MAX_CARS THEN <<s[1], s[2] + 1>> ELSE <<s[1] + 1, 0>>

Precedes(s, t) == s[1] < t[1] \/ (s[1] = t[1] /\ s[2] < t[2])

\* the test inverted
FeasibleInverted(action, i, j) ==
    ~((0 <= action /\ action <= i) \/ (-j <= action /\ action <= 0))

\* if (0 <= action <= i) or (-j <= action <= 0)
Feasible(action, i, j) ==
    (0 <= action /\ action <= i) \/ (-j <= action /\ action <= 0)

\* np.argmax: the index of the first occurrence of the maximum
RECURSIVE ArgMaxFrom(_, _, _)
ArgMaxFrom(xs, k, best) ==
    IF k > Len(xs) THEN best
    ELSE ArgMaxFrom(xs, k + 1, IF xs[k] > xs[best] THEN k ELSE best)

\* the last occurrence of the maximum instead of the first
RECURSIVE ArgMaxLastFrom(_, _, _)
ArgMaxLastFrom(xs, k, best) ==
    IF k > Len(xs) THEN best
    ELSE ArgMaxLastFrom(xs, k + 1, IF xs[k] >= xs[best] THEN k ELSE best)

ArgMaxLast(xs) == ArgMaxLastFrom(xs, 2, 1)

ArgMax(xs) == ArgMaxFrom(xs, 2, 1)

\* abs(old_value - value).max()
MaxAbsChange(old, new) ==
    CHOOSE m \in {Abs(old[s] - new[s]) : s \in States} :
        \A s \in States : Abs(old[s] - new[s]) <= m

\* a threshold no change is below
ConvergedNever(change) == change * THRESHOLD_DEN < 0

\* max_value_change < 1e-4
Converged(change) == change * THRESHOLD_DEN < VSCALE

\* action_returns of one state of the improvement sweep
ActionReturns(state, table, constant_returned, masses) ==
    [k \in 1..Len(actions) |->
        IF Feasible(actions[k], state[1], state[2])
        THEN expected_return(state, actions[k], table, constant_returned, masses)
        ELSE NEG_INF]

ImproveCalls(state) ==
    { <<state, actions[k]>> : k \in { m \in 1..Len(actions) :
                                        Feasible(actions[m], state[1], state[2]) } }

\* the flag follows the last state only
StableAfterLast(stable, old_action, new_action) == old_action = new_action

\* if policy_stable and old_action != new_action: policy_stable = False
StableAfter(stable, old_action, new_action) ==
    IF stable /\ old_action # new_action THEN FALSE ELSE stable

\* new_action = actions[np.argmax(action_returns)]
SelectAction(xs) == actions[ArgMax(xs)]

DriverInitAt(start) ==
    /\ value = Zeros
    /\ old_value = Zeros
    /\ policy = Zeros
    /\ pc = start
    /\ cur = <<0, 0>>
    /\ policy_stable = FALSE
    /\ iterations = 0
    /\ max_value_change = 0
    /\ action_returns = <<>>
    /\ calls = {}
    /\ evaluated = Zeros

CacheInit ==
    /\ poisson_cache = EmptyCache
    /\ request = NoRequest
    /\ result = 0
    /\ owner = EmptyCache
    /\ computed = EmptyCache
    /\ hit = FALSE

Init ==
    /\ DriverInitAt("plot")
    /\ CacheInit
    /\ constant_returned_cars \in BOOLEAN
    /\ rates = ConfiguredRates

\* while True: sns.heatmap(..., ax=axes[iterations])
Plot ==
    /\ pc = "plot"
    /\ pc' = IF iterations < NUM_AXES THEN "evaluate" ELSE "IndexError"
    /\ evaluated' = policy
    /\ UNCHANGED <<value, old_value, policy, cur, policy_stable, iterations,
                   max_value_change, action_returns, calls>>
    /\ UNCHANGED <<constant_returned_cars, poisson_cache, rates, cacheVars>>

\* the copy not taken
StartSweepNoCopy ==
    /\ pc = "evaluate"
    /\ cur' = <<0, 0>>
    /\ pc' = "sweep"
    /\ UNCHANGED <<value, old_value, policy, policy_stable, iterations,
                   max_value_change, action_returns, calls, evaluated>>
    /\ UNCHANGED <<constant_returned_cars, poisson_cache, rates, cacheVars>>

\* old_value = value.copy()
StartSweep ==
    /\ pc = "evaluate"
    /\ old_value' = value
    /\ cur' = <<0, 0>>
    /\ pc' = "sweep"
    /\ UNCHANGED <<value, policy, policy_stable, iterations, max_value_change,
                   action_returns, calls, evaluated>>
    /\ UNCHANGED <<constant_returned_cars, poisson_cache, rates, cacheVars>>

\* value[i, j] = expected_return([i, j], policy[i, j], value, constant_returned_cars)
SweepState ==
    /\ pc = "sweep"
    /\ \E masses \in {CacheAfterCall(poisson_cache, constant_returned_cars)} :
        /\ value' = [value EXCEPT ![cur] =
                        expected_return(cur, policy[cur], value,
                                        constant_returned_cars, masses)]
        /\ poisson_cache' = masses
    /\ calls' = {<<cur, policy[cur]>>}
    /\ IF cur = LastState
       THEN pc' = "sweep_end" /\ cur' = cur
       ELSE pc' = pc /\ cur' = NextState(cur)
    /\ UNCHANGED <<old_value, policy, policy_stable, iterations,
                   max_value_change, action_returns, evaluated>>
    /\ UNCHANGED <<constant_returned_cars, rates, cacheVars>>

\* max_value_change = abs(old_value - value).max(); if max_value_change < 1e-4: break
EndSweep ==
    /\ pc = "sweep_end"
    /\ max_value_change' = MaxAbsChange(old_value, value)
    /\ pc' = IF Converged(max_value_change') THEN "improve_start" ELSE "evaluate"
    /\ UNCHANGED <<value, old_value, policy, cur, policy_stable, iterations,
                   action_returns, calls, evaluated>>
    /\ UNCHANGED <<constant_returned_cars, poisson_cache, rates, cacheVars>>

\* policy_stable = True
StartImprove ==
    /\ pc = "improve_start"
    /\ policy_stable' = TRUE
    /\ cur' = <<0, 0>>
    /\ pc' = "improve"
    /\ UNCHANGED <<value, old_value, policy, iterations, max_value_change,
                   action_returns, calls, evaluated>>
    /\ UNCHANGED <<constant_returned_cars, poisson_cache, rates, cacheVars>>

\* the improvement also storing the best return in the value table
ImproveStateWritesValue ==
    /\ pc = "improve"
    /\ \E masses \in {CacheAfterCall(poisson_cache, constant_returned_cars)} :
        /\ poisson_cache' = masses
        /\ \E xs \in {ActionReturns(cur, value, constant_returned_cars, masses)} :
            /\ action_returns' = xs
            /\ policy' = [policy EXCEPT ![cur] = SelectAction(xs)]
            /\ policy_stable' = StableAfter(policy_stable, policy[cur],
                                            SelectAction(xs))
            /\ value' = [value EXCEPT ![cur] = xs[ArgMax(xs)]]
    /\ calls' = ImproveCalls(cur)
    /\ IF cur = LastState
       THEN pc' = "improve_end" /\ cur' = cur
       ELSE pc' = pc /\ cur' = NextState(cur)
    /\ UNCHANGED <<old_value, iterations, max_value_change, evaluated>>
    /\ UNCHANGED <<constant_returned_cars, rates, cacheVars>>

\* one state of the improvement sweep
ImproveState ==
    /\ pc = "improve"
    /\ \E masses \in {CacheAfterCall(poisson_cache, constant_returned_cars)} :
        /\ poisson_cache' = masses
        /\ \E xs \in {ActionReturns(cur, value, constant_returned_cars, masses)} :
            /\ action_returns' = xs
            /\ policy' = [policy EXCEPT ![cur] = SelectAction(xs)]
            /\ policy_stable' = StableAfter(policy_stable, policy[cur],
                                            SelectAction(xs))
    /\ calls' = ImproveCalls(cur)
    /\ IF cur = LastState
       THEN pc' = "improve_end" /\ cur' = cur
       ELSE pc' = pc /\ cur' = NextState(cur)
    /\ UNCHANGED <<value, old_value, iterations, max_value_change, evaluated>>
    /\ UNCHANGED <<constant_returned_cars, rates, cacheVars>>

\* if policy_stable: break; iterations += 1
EndImprove ==
    /\ pc = "improve_end"
    /\ IF policy_stable
       THEN pc' = "done" /\ iterations' = iterations
       ELSE pc' = "plot" /\ iterations' = iterations + 1
    /\ UNCHANGED <<value, old_value, policy, cur, policy_stable,
                   max_value_change, action_returns, calls, evaluated>>
    /\ UNCHANGED <<constant_returned_cars, poisson_cache, rates, cacheVars>>

Next ==
    \/ Plot
    \/ StartSweep
    \/ SweepState
    \/ EndSweep
    \/ StartImprove
    \/ ImproveState
    \/ EndImprove

Spec == Init /\ [][Next]_vars

\* The cell is one thread that waits on nothing: while it has not ended it
\* takes its next step.  Next is enabled exactly while Running holds, and
\* every step of Next changes pc or cur, so weak fairness of Advance on
\* <<pc, cur>> is weak fairness of Next on vars.
PcValues ==
    {"plot", "evaluate", "sweep", "sweep_end", "improve_start", "improve",
     "improve_end", "done", "IndexError"}

Running == pc \notin {"done", "IndexError"}

Advance ==
    /\ Running
    /\ pc' \in PcValues
    /\ cur' \in States
    /\ <<pc', cur'>> # <<pc, cur>>

FairSpec == Spec /\ WF_<<pc, cur>>(Advance)

\* ---------------------------------------------------------------------------
\* poisson_probability on its own: any sequence of requests.
RequestCounts == 0..(MAX_REQUEST_COUNT - 1)

Times(bag, x) == IF x \in DOMAIN bag THEN bag[x] ELSE 0

RequestPoisson ==
    /\ pc = "request"
    /\ \E n \in RequestCounts, lam \in rates :
        /\ request' = <<n, lam>>
        /\ result' = poisson_probability(poisson_cache, n, lam)
        /\ poisson_cache' = PoissonStore(poisson_cache, n, lam)
        /\ hit' = ~KeyMissing(poisson_cache, Key(n, lam))
        /\ IF KeyMissing(poisson_cache, Key(n, lam))
           THEN /\ owner' = (Key(n, lam) :> <<n, lam>>) @@ owner
                /\ computed' = (<<n, lam>> :> Times(computed, <<n, lam>>) + 1)
                                   @@ computed
           ELSE UNCHANGED <<owner, computed>>
    /\ UNCHANGED driverVars
    /\ UNCHANGED <<constant_returned_cars, rates>>

CacheSpecInit ==
    /\ DriverInitAt("request")
    /\ CacheInit
    /\ constant_returned_cars = TRUE
    /\ rates = ConfiguredRates

SpecCache == CacheSpecInit /\ [][RequestPoisson]_vars

WideInit ==
    /\ DriverInitAt("request")
    /\ CacheInit
    /\ constant_returned_cars = TRUE
    /\ rates = WideRates

SpecWide == WideInit /\ [][RequestPoisson]_vars

\* ---------------------------------------------------------------------------
\* expected_return on its own: any state, any action of the action range.
EvalCall ==
    /\ pc = "call"
    /\ \E s \in States, k \in 1..Len(actions),
          masses \in {CacheAfterCall(poisson_cache, constant_returned_cars)} :
        /\ calls' = {<<s, actions[k]>>}
        /\ action_returns' = <<expected_return(s, actions[k], value,
                                               constant_returned_cars, masses)>>
        /\ poisson_cache' = masses
    /\ pc' = "returned"
    /\ UNCHANGED <<value, old_value, policy, cur, policy_stable, iterations,
                   max_value_change, evaluated>>
    /\ UNCHANGED <<constant_returned_cars, rates, cacheVars>>

EvalInit ==
    /\ DriverInitAt("call")
    /\ CacheInit
    /\ constant_returned_cars \in BOOLEAN
    /\ rates = ConfiguredRates

SpecEval == EvalInit /\ [][EvalCall]_vars

\* ---------------------------------------------------------------------------
\* The selection of the improvement sweep on any list of returns: beside the
\* driver's own step, one state is improved from a list drawn from
\* ReturnLists (minus infinity at the infeasible actions, one of two levels
\* at the others), after which that run is not followed further.
ReturnLevels == {0, 1}

ReturnLists(state) ==
    { [k \in 1..Len(actions) |->
          IF Feasible(actions[k], state[1], state[2]) THEN levels[k] ELSE NEG_INF] :
      levels \in [1..Len(actions) -> ReturnLevels] }

SelectFrom ==
    /\ pc = "improve"
    /\ \E xs \in ReturnLists(cur) :
        /\ action_returns' = xs
        /\ policy' = [policy EXCEPT ![cur] = SelectAction(xs)]
        /\ policy_stable' = StableAfter(policy_stable, policy[cur], SelectAction(xs))
    /\ pc' = "selected"
    /\ UNCHANGED <<value, old_value, cur, iterations, max_value_change, calls,
                   evaluated>>
    /\ UNCHANGED <<constant_returned_cars, poisson_cache, rates, cacheVars>>

NextSelect ==
    \/ Next
    \/ SelectFrom

SpecSelect == Init /\ [][NextSelect]_vars

\* ===========================================================================
\* Properties.

MoveRange == (-MAX_MOVE_OF_CARS)..MAX_MOVE_OF_CARS

\* 0 <= a <= i or -j <= a <= 0, written out
Allowed(a, s) == (0 <= a /\ a <= s[1]) \/ (-s[2] <= a /\ a <= 0)

\* C1: in every state of the driver each policy entry is an action of the
\* range that is feasible for its state (0 <= policy[i,j] <= i or
\* -j <= policy[i,j] <= 0), and policy[0,0] is 0.
PolicyFeasible ==
    /\ \A s \in States : policy[s] \in MoveRange /\ Allowed(policy[s], s)
    /\ policy[<<0, 0>>] = 0

\* the driver has finished with cars moved in both directions
PolicyMovesBothWays ==
    /\ pc = "done"
    /\ \E s \in States : policy[s] > 0
    /\ \E s \in States : policy[s] < 0

\* C2: for every call of expected_return the driver makes, in either branch
\* and for every request and return count below the truncation bound, both
\* indices used to read the value table lie in 0..MAX_CARS.
DriverLookupsInRange ==
    \A c \in calls :
        \A ix \in Lookups(c[1], c[2], constant_returned_cars) :
            /\ 0 <= ix[1] /\ ix[1] <= MAX_CARS
            /\ 0 <= ix[2] /\ ix[2] <= MAX_CARS

\* an evaluation sweep of the random-return branch has just evaluated a state
\* whose policy entry moves cars, and the upper clamp was met
SweepCallMovesCars ==
    /\ pc = "sweep"
    /\ ~constant_returned_cars
    /\ iterations > 0
    /\ cur # <<0, 0>>
    /\ \E c \in calls :
        /\ calls = {c}
        /\ c[2] # 0
        /\ <<MAX_CARS, MAX_CARS>> \in Lookups(c[1], c[2], constant_returned_cars)

\* the least index whose entry no other entry exceeds and no earlier entry equals
FirstMaxIndex(xs) ==
    CHOOSE k \in 1..Len(xs) :
        /\ \A m \in 1..Len(xs) : xs[m] <= xs[k]
        /\ \A m \in 1..(k - 1) : xs[m] < xs[k]

\* C3: a step of the improvement sweep sets the entry of its state to the
\* first action, in the order -MAX_MOVE..MAX_MOVE, whose return is the maximum
\* of the list, infeasible actions counting as minus infinity; of several
\* actions with the maximal return the most negative is taken.
GreedyFirstMaximum ==
    [][pc = "improve" =>
        /\ Len(action_returns') = 2 * MAX_MOVE_OF_CARS + 1
        /\ \A k \in 1..Len(actions) : actions[k] = k - MAX_MOVE_OF_CARS - 1
        /\ policy'[cur] = actions[FirstMaxIndex(action_returns')]
        /\ \A k \in 1..Len(actions) :
              action_returns'[k] = action_returns'[FirstMaxIndex(action_returns')]
                  => policy'[cur] <= actions[k]
        /\ \A k \in 1..Len(actions) :
              ~Allowed(actions[k], cur) => action_returns'[k] = NEG_INF
        /\ Allowed(policy'[cur], cur)
        /\ pc' # "selected" =>
              \A k \in 1..Len(actions) :
                  action_returns'[k] =
                      IF Allowed(actions[k], cur)
                      THEN expected_return(cur, actions[k], value,
                                           constant_returned_cars, poisson_cache')
                      ELSE NEG_INF
    ]_vars

\* a state improved from a list in which two actions share the maximal
\* return: the entry is the more negative of them
TieTakesMostNegative ==
    /\ pc = "selected"
    /\ \E k, m \in 1..Len(action_returns) :
        /\ k < m
        /\ action_returns[k] = action_returns[m]
        /\ action_returns[k] > NEG_INF
        /\ \A n \in 1..Len(action_returns) : action_returns[n] <= action_returns[k]
        /\ policy[cur] = actions[k]

\* C4: at the end of an improvement sweep policy_stable holds exactly if the
\* sweep left the policy as the evaluation phase before it had it; the loop
\* ends there if it holds, with that policy, and otherwise goes on to an
\* evaluation phase of the new policy; it ends nowhere else.
StableIffUnchanged ==
    [][/\ pc = "improve_end" =>
            /\ policy_stable <=> (policy = evaluated)
            /\ policy_stable => (pc' = "done" /\ policy' = evaluated)
            /\ ~policy_stable => (pc' = "plot" /\ policy' = policy
                                    /\ iterations' = iterations + 1)
       /\ (pc = "plot" /\ iterations < NUM_AXES) =>
            (pc' = "evaluate" /\ evaluated' = policy /\ policy' = policy)
       /\ pc \in {"evaluate", "sweep", "sweep_end", "improve_start"} =>
            (policy = evaluated /\ pc' # "done")
       /\ pc' = "done" => (pc = "improve_end" /\ policy_stable)
    ]_vars

\* the loop has ended after a sweep that changed the policy and one that did not
EndedAfterChange ==
    /\ pc = "done"
    /\ iterations > 0
    /\ policy = evaluated
    /\ policy # Zeros

CacheMemoizes ==
    /\ \A p \in DOMAIN computed :
        /\ computed[p] = 1
        /\ Key(p[1], p[2]) \in DOMAIN poisson_cache
        /\ poisson_cache[Key(p[1], p[2])] = poisson_pmf(p[1], p[2])
    /\ Cardinality(DOMAIN poisson_cache) = Cardinality(DOMAIN computed)
    /\ request # NoRequest =>
        /\ request \in DOMAIN computed
        /\ result = poisson_pmf(request[1], request[2])

\* a pair requested again after requests for other pairs: served from the cache
RepeatedRequestServed ==
    /\ hit
    /\ Cardinality(DOMAIN poisson_cache) > 2
    /\ computed[request] = 1
    /\ result = poisson_pmf(request[1], request[2])

\* C7: the policy table changes only in a step of the improvement sweep and
\* the value table only in a step of an evaluation sweep, one entry per
\* step, the value entry becoming the evaluator's result; evaluation leaves
\* the policy table as it is, improvement the value table.
TablesWrittenInPhase ==
    [][/\ policy' # policy =>
            /\ pc = "improve"
            /\ \A s \in States \ {cur} : policy'[s] = policy[s]
       /\ value' # value =>
            /\ pc = "sweep"
            /\ \A s \in States \ {cur} : value'[s] = value[s]
       /\ pc = "sweep" =>
            value'[cur] = expected_return(cur, policy[cur], value,
                                          constant_returned_cars, poisson_cache')
       /\ pc \in {"evaluate", "sweep", "sweep_end"} => policy' = policy
       /\ pc \in {"improve_start", "improve", "improve_end"} => value' = value
    ]_vars

\* in the middle of an improvement sweep that has already changed the policy
ImprovementUnderWay ==
    /\ pc = "improve"
    /\ cur # <<0, 0>>
    /\ policy # evaluated
    /\ value # Zeros

\* the table a sweep step reads: this sweep's values before cur, the
\* snapshot's from cur on
SweepView ==
    [s \in States |-> IF Precedes(s, cur) THEN value[s] ELSE old_value[s]]

\* C8: an evaluation sweep goes through the states in row-major order and
\* writes each value before the next state is evaluated: the value of state
\* (i,j) is computed from this sweep's values of the states before it and the
\* previous sweep's of (i,j) and the states after it; the convergence check
\* compares the table after the sweep with the copy taken as the sweep began.
SweepInPlace ==
    [][/\ pc = "evaluate" => (old_value' = value /\ value' = value /\ cur' = <<0, 0>>)
       /\ pc = "sweep" =>
            /\ \A s \in States : ~Precedes(s, cur) => value[s] = old_value[s]
            /\ value'[cur] = expected_return(cur, policy[cur], SweepView,
                                             constant_returned_cars, poisson_cache')
            /\ old_value' = old_value
            /\ IF cur[1] = MAX_CARS /\ cur[2] = MAX_CARS
               THEN pc' = "sweep_end"
               ELSE /\ pc' = "sweep"
                    /\ cur' = IF cur[2] < MAX_CARS THEN <<cur[1], cur[2] + 1>>
                              ELSE <<cur[1] + 1, 0>>
       /\ pc = "sweep_end" =>
            /\ \A s \in States : Abs(old_value[s] - value[s]) <= max_value_change'
            /\ \E s \in States : Abs(old_value[s] - value[s]) = max_value_change'
            /\ (pc' = "improve_start") <=> (max_value_change' * THRESHOLD_DEN < VSCALE)
    ]_vars

\* a sweep step about to read a value this same sweep has already replaced
SweepReadsNewValue ==
    /\ pc = "sweep"
    /\ \E s \in Lookups(cur, policy[cur], constant_returned_cars) :
        /\ s \in States
        /\ Precedes(s, cur)
        /\ value[s] # old_value[s]

\* C9: with a rate of 10 or more the key is shared by distinct pairs, (0, 20)
\* and (1, 10) among them, and a request for one of them made after the other
\* was stored returns the other's mass.
KeyCollision ==
    /\ Key(0, 20) = Key(1, 10)
    /\ \E p, q \in RequestCounts \X WideRates :
          p # q /\ Key(p[1], p[2]) = Key(q[1], q[2])
    /\ request # NoRequest =>
        LET first == owner[Key(request[1], request[2])]
        IN  /\ result = poisson_pmf(first[1], first[2])
            /\ Key(first[1], first[2]) = Key(request[1], request[2])
            /\ computed[first] = 1
    /\ (request = <<1, 10>> /\ <<0, 20>> \in DOMAIN computed) =>
          (result = poisson_pmf(0, 20) /\ <<1, 10>> \notin DOMAIN computed)

\* (1, 10) requested after (0, 20): the mass returned is not its own
WrongMassReturned ==
    /\ request = <<1, 10>>
    /\ owner[Key(1, 10)] = <<0, 20>>
    /\ result = poisson_pmf(0, 20)
    /\ result # poisson_pmf(1, 10)

\* C10: for every state and every action of the range, infeasible ones
\* included, the indices expected_return reads the value table with lie in
\* 0..MAX_CARS; the cars left after the rentals are max(post-move count -
\* requests, 0); an infeasible action makes the post-move count of its source
\* location negative, and there the valid rentals and their credit are
\* negative; a feasible action has 0 <= valid rentals <= post-move count and
\* <= requests at both locations.
EvaluatorIndicesInRange ==
    \A c \in calls :
        LET first == PostMoveFirst(c[1], c[2])
            second == PostMoveSecond(c[1], c[2])
        IN  /\ \A ix \in Lookups(c[1], c[2], constant_returned_cars) :
                  ix[1] \in 0..MAX_CARS /\ ix[2] \in 0..MAX_CARS
            /\ \A r \in Counts :
                  /\ AfterRental(first, r) = Max(first - r, 0)
                  /\ AfterRental(second, r) = Max(second - r, 0)
            /\ ~Allowed(c[2], c[1]) =>
                  /\ first < 0 \/ second < 0
                  /\ \A r \in Counts :
                        /\ first < 0 =>
                              (ValidRental(first, r) < 0
                               /\ ValidRental(first, r) * RENTAL_CREDIT < 0)
                        /\ second < 0 =>
                              (ValidRental(second, r) < 0
                               /\ ValidRental(second, r) * RENTAL_CREDIT < 0)
            /\ Allowed(c[2], c[1]) =>
                  \A r \in Counts :
                      /\ 0 <= ValidRental(first, r)
                      /\ ValidRental(first, r) <= first
                      /\ ValidRental(first, r) <= r
                      /\ 0 <= ValidRental(second, r)
                      /\ ValidRental(second, r) <= second
                      /\ ValidRental(second, r) <= r

\* expected_return has returned from an infeasible action
InfeasibleCallReturned ==
    /\ pc = "returned"
    /\ \E c \in calls :
        /\ ~Allowed(c[2], c[1])
        /\ PostMoveFirst(c[1], c[2]) < 0
        /\ Len(action_returns) = 1

====
